---- MODULE Spec2Model ----
(***************************************************************************)
(* Data-transformation layer of the GRD survey dashboard (src/app.py):      *)
(* the loader clean-up, the tier normaliser, the answer canonicaliser, the  *)
(* frequency tabulator, the response orderer, the region/tier filter and    *)
(* the order in which one run of the script reaches them.                   *)
(*                                                                         *)
(* A text is a sequence of one-character strings, so that strip, upper,    *)
(* substring search and code-point comparison are computed, not assumed.   *)
(* A missing cell (NaN / <NA>) is the marker NA, which is not a text.       *)
(***************************************************************************)
EXTENDS Integers, Sequences, FiniteSets, TLC

VARIABLES
    pc,          \* position of the run in the script / in the function under study
    raw,         \* normalizar_instancia: the raw tier cell
    out,         \* normalizar_instancia: the label assigned
    series,      \* canonizar_respuestas / tabla_frecuencias: the answer column
    canon1,      \* canonizar_respuestas(series)
    canon2,      \* canonizar_respuestas(canonizar_respuestas(series))
    frec,        \* the table returned by tabla_frecuencias
    frec_ord,    \* the table returned by ordenar_respuestas
    src,         \* the spreadsheet on disk: [exists, cols, rows]
    df,          \* the loaded data frame: [cols, rows]
    df_f,        \* the filtered rows
    region_sel,  \* sidebar selection: region
    inst_sel,    \* sidebar selection: normalised tier
    sel_pregs,   \* questions selected in the multiselect
    q_idx,       \* position in sel_pregs of the next tab to render
    kpi,         \* the three KPI figures
    res_region,  \* the per-region summary table with its Total row
    stages,      \* stages computed so far in the current run
    shown        \* messages shown to the user in the current run

vars == <<pc, raw, out, series, canon1, canon2, frec, frec_ord, src, df, df_f,
          region_sel, inst_sel, sel_pregs, q_idx, kpi, res_region, stages, shown>>

normVars == <<raw, out>>
canonVars == <<canon1, canon2>>
tablaVars == <<frec, frec_ord>>
renderVars == <<src, df, df_f, region_sel, inst_sel, sel_pregs, q_idx, kpi, res_region,
                stages, shown>>

-----------------------------------------------------------------------------
(* Texts *)

NA == <<"<NA>">>

s_Todas == <<"T", "o", "d", "a", "s">>
s_Total == <<"T", "o", "t", "a", "l">>
s_SinRespuesta == <<"S", "i", "n", " ", "r", "e", "s", "p", "u", "e", "s", "t", "a">>
s_SinEspecificar == <<"S", "i", "n", " ", "e", "s", "p", "e", "c", "i", "f", "i", "c", "a", "r">>
s_OTRAS == <<"O", "T", "R", "A", "S">>
s_UGEL == <<"U", "G", "E", "L">>
s_DRE == <<"D", "R", "E">>
s_GRE == <<"G", "R", "E">>
s_DRE_GRE == <<"D", "R", "E", "/", "G", "R", "E">>
s_ODENAGED == <<"O", "D", "E", "N", "A", "G", "E", "D">>
s_MINEDU == <<"M", "I", "N", "E", "D", "U">>
s_Guion == <<"-">>
s_NAN == <<"N", "A", "N">>
s_NONE == <<"N", "O", "N", "E">>
s_nan == <<"n", "a", "n">>
s_Si == <<"S", "i">>
s_si == <<"s", "i">>
s_SI == <<"S", "I">>
s_SI_ac == <<"S", "Í">>
s_Si_ac == <<"S", "í">>
s_No_se == <<"N", "o", " ", "s", "e">>
s_No_Se == <<"N", "o", " ", "S", "e">>
s_NO_SE == <<"N", "O", " ", "S", "E">>
s_NO_SE_ac == <<"N", "O", " ", "S", "É">>
s_No_se_ac == <<"N", "o", " ", "s", "é">>
s_No == <<"N", "o">>
s_Nunca == <<"N", "u", "n", "c", "a">>
s_RaraVez == <<"R", "a", "r", "a", " ", "v", "e", "z">>
s_AVeces == <<"A", " ", "v", "e", "c", "e", "s">>
s_Frecuentemente == <<"F", "r", "e", "c", "u", "e", "n", "t", "e", "m", "e", "n", "t", "e">>
s_Siempre == <<"S", "i", "e", "m", "p", "r", "e">>
s_MuyEnDesacuerdo == <<"M", "u", "y", " ", "e", "n", " ", "d", "e", "s", "a", "c", "u", "e", "r", "d", "o">>
s_EnDesacuerdo == <<"E", "n", " ", "d", "e", "s", "a", "c", "u", "e", "r", "d", "o">>
s_Neutral == <<"N", "e", "u", "t", "r", "a", "l">>
s_DeAcuerdo == <<"D", "e", " ", "a", "c", "u", "e", "r", "d", "o">>
s_MuyDeAcuerdo == <<"M", "u", "y", " ", "d", "e", " ", "a", "c", "u", "e", "r", "d", "o">>
s_Lima == <<"L", "i", "m", "a">>
s_Cusco == <<"C", "u", "s", "c", "o">>
s_Puno == <<"P", "u", "n", "o">>
s_Otro == <<"O", "t", "r", "o">>
s_ugel == <<"u", "g", "e", "l">>
s_Dre == <<"D", "r", "e">>
s_minedu == <<"m", "i", "n", "e", "d", "u">>
s_Tal_vez == <<"T", "a", "l", " ", "v", "e", "z">>

s_Empty == << >>
s_Sp == <<" ">>

\* Characters in increasing code-point order (str comparison in Python).
CodeOrder == <<"\t", " ", "-", "/", "A", "C", "D", "E", "F", "G", "I", "L", "M", "N", "O", "P", "R", "S", "T", "U", "V", "Y", "Z", "a", "c", "d", "e", "f", "g", "i", "l", "m", "n", "o", "p", "r", "s", "t", "u", "v", "y", "z", "É", "Í", "é", "í">>
Lowers == <<"a", "c", "d", "e", "f", "g", "i", "l", "m", "n", "o", "p", "r", "s", "t", "u", "v", "y", "z", "é", "í">>
Uppers == <<"A", "C", "D", "E", "F", "G", "I", "L", "M", "N", "O", "P", "R", "S", "T", "U", "V", "Y", "Z", "É", "Í">>
Whitespace == {" ", "\t"}

Code(c) == CHOOSE i \in 1..Len(CodeOrder) : CodeOrder[i] = c

\* str.upper on one character
UpperChar(c) ==
    IF \E i \in 1..Len(Lowers) : Lowers[i] = c
    THEN Uppers[CHOOSE i \in 1..Len(Lowers) : Lowers[i] = c]
    ELSE c

\* Series.str.upper
Upper(s) == [i \in 1..Len(s) |-> UpperChar(s[i])]

RECURSIVE LStrip(_)
LStrip(s) == IF s # << >> /\ Head(s) \in Whitespace THEN LStrip(Tail(s)) ELSE s

RECURSIVE RStrip(_)
RStrip(s) ==
    IF s # << >> /\ s[Len(s)] \in Whitespace THEN RStrip(SubSeq(s, 1, Len(s) - 1)) ELSE s

\* str.strip; a missing value stays missing under Series.str.strip
Strip(s) == IF s = NA THEN NA ELSE RStrip(LStrip(s))

\* Series.str.contains with a pattern that has no regex metacharacter
Contains(s, tok) ==
    \E i \in 1..(Len(s) - Len(tok) + 1) : SubSeq(s, i, i + Len(tok) - 1) = tok

\* a < b for Python str
RECURSIVE StrLess(_, _)
StrLess(a, b) ==
    IF b = << >> THEN FALSE
    ELSE IF a = << >> THEN TRUE
    ELSE IF Head(a) # Head(b) THEN Code(Head(a)) < Code(Head(b))
    ELSE StrLess(Tail(a), Tail(b))

RECURSIVE Concat(_)
Concat(ws) == IF ws = << >> THEN << >> ELSE Head(ws) \o Concat(Tail(ws))

Range(f) == {f[i] : i \in DOMAIN f}

Min(S) == CHOOSE x \in S : \A y \in S : x <= y

\* the arrangements of the indices I in which the keys k are non-decreasing
RECURSIVE IndexOrders(_, _)
IndexOrders(I, k) ==
    IF I = {} THEN {<< >>}
    ELSE UNION {{<<i>> \o o : o \in IndexOrders(I \ {i}, k)} :
                  i \in {i \in I : \A j \in I : k[i] <= k[j]}}

\* The tables a sort of t by the keys k (k[i] the key of row t[i]) can return:
\* every arrangement with non-decreasing keys.  Rows with equal keys may come
\* out in any order (sort_values defaults to kind="quicksort", not stable).
SortedBy(t, k) == {[n \in DOMAIN t |-> t[o[n]]] : o \in IndexOrders(DOMAIN t, k)}

\* position of the text x among the texts S in str order
Rank(S, x) == Cardinality({y \in S : StrLess(y, x)})

-----------------------------------------------------------------------------
(* normalizar_instancia, on one cell of the tier column *)

\* Series.mask(cond, other): the cell becomes other where cond holds
Mask(o, cond, other) == IF cond THEN other ELSE o

normalizar_instancia(cell) ==
    LET s2 == Upper(IF cell = NA THEN s_Empty ELSE cell)
        o0 == s_OTRAS
        o1 == Mask(o0, Contains(s2, s_UGEL), s_UGEL)
        o2 == Mask(o1, Contains(s2, s_DRE) \/ Contains(s2, s_GRE), s_DRE_GRE)
        o3 == Mask(o2, Contains(s2, s_ODENAGED), s_ODENAGED)
        o4 == Mask(o3, Contains(s2, s_MINEDU), s_MINEDU)
        o5 == Mask(o4, s2 = s_Empty \/ s2 \in {s_Guion, s_NAN, s_NONE}, s_SinEspecificar)
    IN  o5

-----------------------------------------------------------------------------
(* canonizar_respuestas *)

\* the spelling dictionary m
m == (s_Si :> s_Si_ac) @@ (s_si :> s_Si_ac) @@ (s_SI :> s_Si_ac) @@ (s_SI_ac :> s_Si_ac)
     @@ (s_No_se :> s_No_se_ac) @@ (s_No_Se :> s_No_se_ac)
     @@ (s_NO_SE :> s_No_se_ac) @@ (s_NO_SE_ac :> s_No_se_ac)

\* Series.replace(m) on one cell: whole-value replacement
Replace(s) == IF s \in DOMAIN m THEN m[s] ELSE s

\* a plausible slip: the dictionary applied before the strip
canonizar_celda_strip_al_final(c) ==
    Strip(Replace(IF c = NA THEN s_SinRespuesta ELSE c))

\* astype("string").fillna("Sin respuesta").str.strip(), then replace(m)
canonizar_celda(c) ==
    Replace(Strip(IF c = NA THEN s_SinRespuesta ELSE c))

canonizar_respuestas(s) == [i \in DOMAIN s |-> canonizar_celda(s[i])]

-----------------------------------------------------------------------------
(* tabla_frecuencias *)

\* distinct values of a column in order of first occurrence
RECURSIVE Distinct(_)
Distinct(s) ==
    IF s = << >> THEN << >>
    ELSE LET d == Distinct(SubSeq(s, 1, Len(s) - 1))
         IN  IF s[Len(s)] \in Range(d) THEN d ELSE Append(d, s[Len(s)])

Count(s, v) == Cardinality({i \in DOMAIN s : s[i] = v})

\* value_counts(sort=False): one row per distinct value, in order of first occurrence
Conteos(s) ==
    LET d == Distinct(s)
    IN  [i \in DOMAIN d |-> [Respuesta |-> d[i], Frecuencia |-> Count(s, d[i])]]

\* a plausible slip: value_counts(sort=False)
value_counts_sin_ordenar(s) == {Conteos(s)}

\* Series.value_counts(dropna=False): rows by decreasing count
value_counts(s) ==
    LET c == Conteos(s)
    IN  SortedBy(c, [i \in DOMAIN c |-> 0 - c[i].Frecuencia])

\* a plausible slip: round half up
redondeo_half_up(n, d) == (2 * n + d) \div (2 * d)

\* (n / d).round(): numpy rounds to the nearest integer, a tie to the even one
redondeo(n, d) ==
    LET q == n \div d
        r == n % d
    IN  IF 2 * r < d THEN q
        ELSE IF 2 * r > d THEN q + 1
        ELSE IF q % 2 = 0 THEN q ELSE q + 1

RECURSIVE SumFrecuencia(_)
SumFrecuencia(t) ==
    IF t = << >> THEN 0 ELSE Head(t).Frecuencia + SumFrecuencia(Tail(t))

\* one possible table: value-count rows t, the percentage column, the Total row
ConPorcentajeYTotal(t) ==
    LET total == SumFrecuencia(t)
        filas == [i \in DOMAIN t |->
                    [Respuesta  |-> t[i].Respuesta,
                     Frecuencia |-> t[i].Frecuencia,
                     Porcentaje |-> redondeo(t[i].Frecuencia * 100, total)]]
        t_total == <<[Respuesta |-> s_Total, Frecuencia |-> total, Porcentaje |-> 100]>>
    IN  filas \o t_total

\* the tables tabla_frecuencias(series) can return
tabla_frecuencias(s) ==
    {ConPorcentajeYTotal(t) : t \in value_counts(canonizar_respuestas(s))}

-----------------------------------------------------------------------------
(* ordenar_respuestas *)

\* a plausible slip: the two ternary scales listed the other way round
ordenes_ternarias_invertidas ==
    << <<s_Nunca, s_RaraVez, s_AVeces, s_Frecuentemente, s_Siempre, s_SinRespuesta, s_Total>>,
       <<s_MuyEnDesacuerdo, s_EnDesacuerdo, s_Neutral, s_DeAcuerdo, s_MuyDeAcuerdo,
         s_SinRespuesta, s_Total>>,
       <<s_Si_ac, s_No, s_No_se_ac, s_SinRespuesta, s_Total>>,
       <<s_No, s_No_se_ac, s_Si_ac, s_SinRespuesta, s_Total>> >>

ordenes ==
    << <<s_Nunca, s_RaraVez, s_AVeces, s_Frecuentemente, s_Siempre, s_SinRespuesta, s_Total>>,
       <<s_MuyEnDesacuerdo, s_EnDesacuerdo, s_Neutral, s_DeAcuerdo, s_MuyDeAcuerdo,
         s_SinRespuesta, s_Total>>,
       <<s_No, s_No_se_ac, s_Si_ac, s_SinRespuesta, s_Total>>,
       <<s_Si_ac, s_No, s_No_se_ac, s_SinRespuesta, s_Total>> >>

Labels(t) == {t[i].Respuesta : i \in DOMAIN t}

\* the scales whose label set contains every label of the table
Coinciden(vals) == {k \in DOMAIN ordenes : vals \subseteq Range(ordenes[k])}

\* code of a label in pd.Categorical(categories=orden): its position; a label
\* outside the categories becomes missing and sorts last
Categoria(orden, label) ==
    IF label \in Range(orden)
    THEN CHOOSE i \in DOMAIN orden : orden[i] = label
    ELSE Len(orden) + 1

EsTotal(r) == r.Respuesta = s_Total
NoEsTotal(r) == r.Respuesta # s_Total

\* a plausible slip: the fallback path returns the sorted rows without the Total row
ordenar_respuestas_sin_total(df_freq) ==
    LET vals == Labels(df_freq)
    IN  IF Coinciden(vals) # {}
        THEN LET orden == ordenes[Min(Coinciden(vals))]
             IN  SortedBy(df_freq, [i \in DOMAIN df_freq |->
                                     Categoria(orden, df_freq[i].Respuesta)])
        ELSE LET df_ == SelectSeq(df_freq, NoEsTotal)
             IN  SortedBy(df_, [i \in DOMAIN df_ |-> Rank(Labels(df_), df_[i].Respuesta)])

\* the tables ordenar_respuestas(df_freq) can return
ordenar_respuestas(df_freq) ==
    LET vals == Labels(df_freq)
    IN  IF Coinciden(vals) # {}
        THEN LET orden == ordenes[Min(Coinciden(vals))]
             IN  SortedBy(df_freq, [i \in DOMAIN df_freq |->
                                     Categoria(orden, df_freq[i].Respuesta)])
        ELSE LET df_ == SelectSeq(df_freq, NoEsTotal)
                 total_row == SelectSeq(df_freq, EsTotal)
             IN  {d \o total_row :
                    d \in SortedBy(df_, [i \in DOMAIN df_ |->
                                           Rank(Labels(df_), df_[i].Respuesta)])}

-----------------------------------------------------------------------------
(* Bounds and input vocabularies *)

MaxTierWords == 3      \* words per raw tier cell
MaxCanonLen == 2       \* cells per column handed to canonizar_respuestas
MaxRows == 3           \* cells per column over the full answer vocabulary
MaxTernRows == 4       \* cells per column over the yes / no / don't know answers
MaxPlainRows == 8      \* cells per column over the small answer vocabulary
MaxSrcRows == 2        \* rows of the spreadsheet

\* all sequences over V of length at most n
Columns(V, n) == UNION {[1..k -> V] : k \in 0..n}

TierWords == {s_UGEL, s_ugel, s_Dre, s_GRE, s_ODENAGED, s_minedu, s_MINEDU,
              s_Otro, s_Sp, s_Guion, s_nan}
TierCells == {NA} \cup {Concat(ws) : ws \in Columns(TierWords, MaxTierWords)}

\* every key and value of m, other answers, each also with surrounding whitespace
CanonCores == DOMAIN m \cup Range(m) \cup {s_No, s_SinRespuesta, s_Tal_vez, s_Empty}
CanonCells == {NA} \cup CanonCores \cup {s_Sp \o c : c \in CanonCores}
                   \cup {<<"\t">> \o c \o s_Sp : c \in CanonCores}

RespuestasRicas == {s_Si_ac, s_Si, s_No, NA, s_Total, s_Nunca, s_Neutral, s_Tal_vez}
RespuestasTernarias == {s_Si_ac, s_No, s_No_se, NA}
RespuestasSimples == {s_Si_ac, s_No, NA}

-----------------------------------------------------------------------------
(* Values of the variables a specification does not use *)

EmptyFrame == [cols |-> << >>, rows |-> << >>, index |-> << >>]

NoNorm == raw = NA /\ out = NA
NoCanon == canon1 = << >> /\ canon2 = << >>
NoTabla == frec = << >> /\ frec_ord = << >>
NoRender ==
    /\ src = [status |-> "ok", cols |-> << >>, rows |-> << >>]
    /\ df = EmptyFrame
    /\ df_f = EmptyFrame
    /\ region_sel = s_Todas
    /\ inst_sel = s_Todas
    /\ sel_pregs = << >>
    /\ q_idx = 1
    /\ kpi = << >>
    /\ res_region = << >>
    /\ stages = << >>
    /\ shown = << >>

-----------------------------------------------------------------------------
(* normalizar_instancia applied to one raw tier cell *)

InitNorm ==
    /\ pc = "norm_0"
    /\ raw \in TierCells
    /\ out = NA
    /\ series = << >>
    /\ NoCanon /\ NoTabla /\ NoRender

Normalizar ==
    /\ pc = "norm_0"
    /\ out' = normalizar_instancia(raw)
    /\ pc' = "norm_1"
    /\ UNCHANGED <<raw, series, canonVars, tablaVars, renderVars>>

NextNorm == Normalizar

SpecNorm == InitNorm /\ [][NextNorm]_vars

-----------------------------------------------------------------------------
(* canonizar_respuestas applied once and then again to its own result *)

InitCanon ==
    /\ pc = "canon_0"
    /\ series \in Columns(CanonCells, MaxCanonLen)
    /\ NoNorm /\ NoCanon /\ NoTabla /\ NoRender

Canonizar ==
    /\ pc = "canon_0"
    /\ canon1' = canonizar_respuestas(series)
    /\ pc' = "canon_1"
    /\ UNCHANGED <<series, canon2, normVars, tablaVars, renderVars>>

CanonizarOtraVez ==
    /\ pc = "canon_1"
    /\ canon2' = canonizar_respuestas(canon1)
    /\ pc' = "canon_2"
    /\ UNCHANGED <<series, canon1, normVars, tablaVars, renderVars>>

NextCanon == Canonizar \/ CanonizarOtraVez

SpecCanon == InitCanon /\ [][NextCanon]_vars

-----------------------------------------------------------------------------
(* tabla_frecuencias followed by ordenar_respuestas, as in the tab loop *)

InitTabla ==
    /\ pc = "tabla_0"
    /\ series \in Columns(RespuestasRicas, MaxRows)
                    \cup Columns(RespuestasTernarias, MaxTernRows)
                    \cup Columns(RespuestasSimples, MaxPlainRows)
    /\ NoNorm /\ NoCanon /\ NoTabla /\ NoRender

Tabular ==
    /\ pc = "tabla_0"
    /\ frec' \in tabla_frecuencias(series)
    /\ pc' = "tabla_1"
    /\ UNCHANGED <<series, frec_ord, normVars, canonVars, renderVars>>

Ordenar ==
    /\ pc = "tabla_1"
    /\ frec_ord' \in ordenar_respuestas(frec)
    /\ pc' = "tabla_2"
    /\ UNCHANGED <<series, frec, normVars, canonVars, renderVars>>

NextTabla == Tabular \/ Ordenar

SpecTabla == InitTabla /\ [][NextTabla]_vars

-----------------------------------------------------------------------------
(* Properties of normalizar_instancia *)

\* the text the token rules look at: fillna(""), upper-cased
TextoMayus(c) == Upper(IF c = NA THEN s_Empty ELSE c)

\* the token rules in the order they are stated, and their labels
ReglaCumple(k, s2) ==
    CASE k = 1 -> Contains(s2, s_UGEL)
      [] k = 2 -> Contains(s2, s_DRE) \/ Contains(s2, s_GRE)
      [] k = 3 -> Contains(s2, s_ODENAGED)
      [] k = 4 -> Contains(s2, s_MINEDU)
EtiquetaRegla == <<s_UGEL, s_DRE_GRE, s_ODENAGED, s_MINEDU>>
ReglasQueCumplen(c) == {k \in 1..4 : ReglaCumple(k, TextoMayus(c))}

\* C1: when the raw tier text contains the tokens of two or more rules, the
\* label assigned is that of the earliest rule in the order UGEL, DRE or GRE,
\* ODENAGED, MINEDU (first match wins).
C1_PrimeraReglaGana ==
    (pc = "norm_1" /\ Cardinality(ReglasQueCumplen(raw)) >= 2)
        => out = EtiquetaRegla[Min(ReglasQueCumplen(raw))]

-----------------------------------------------------------------------------
(* Properties of canonizar_respuestas *)

\* C6: canonizar_respuestas is idempotent: applied to its own result it
\* returns that result unchanged.
C6_Idempotente == pc = "canon_2" => canon2 = canon1

\* a column with a missing cell and a padded dictionary key has gone through both passes
C6_Witness ==
    /\ pc = "canon_2"
    /\ \E i \in DOMAIN series : series[i] = NA /\ canon1[i] = s_SinRespuesta
    /\ \E i \in DOMAIN series :
          /\ series[i] # NA
          /\ Strip(series[i]) # series[i]
          /\ Strip(series[i]) \in DOMAIN m
          /\ canon1[i] \in Range(m)

-----------------------------------------------------------------------------
(* Properties of tabla_frecuencias *)

Abs(x) == IF x < 0 THEN 0 - x ELSE x

\* the rows before the appended last row
Cuerpo(t) == SubSeq(t, 1, Len(t) - 1)

EtiquetasDe(t) == [i \in DOMAIN t |-> t[i].Respuesta]

RECURSIVE SumPorcentaje(_)
SumPorcentaje(t) ==
    IF t = << >> THEN 0 ELSE Head(t).Porcentaje + SumPorcentaje(Tail(t))

\* C2: the returned table has exactly one row labelled "Total", that row is
\* last, its count is the sum of the counts of all other rows and its
\* percentage is 100, whatever the answers are (an answer "Total" included).
C2_UnSoloTotal ==
    pc \in {"tabla_1", "tabla_2"} =>
        /\ Cardinality({i \in DOMAIN frec : frec[i].Respuesta = s_Total}) = 1
        /\ frec[Len(frec)].Respuesta = s_Total
        /\ frec[Len(frec)].Frecuencia = SumFrecuencia(Cuerpo(frec))
        /\ frec[Len(frec)].Porcentaje = 100

\* C7 as stated: each row before the Total row carries the whole number
\* nearest to count*100/total, an exact .5 tie rounded half up.
C7_MitadHaciaArriba ==
    (pc \in {"tabla_1", "tabla_2"} /\ series # << >>) =>
        \A i \in DOMAIN Cuerpo(frec) :
            LET n == frec[i].Frecuencia * 100
                total == frec[Len(frec)].Frecuencia
            IN  /\ 2 * Abs(frec[i].Porcentaje * total - n) <= total
                /\ frec[i].Porcentaje \in 0..100
                /\ frec[i].Porcentaje = (2 * n + total) \div (2 * total)

\* C7 amended: each row before the Total row carries the whole number nearest
\* to count*100/total, between 0 and 100, an exact .5 tie going to the even
\* neighbour (round half to even).
C7_MitadAlPar ==
    (pc \in {"tabla_1", "tabla_2"} /\ series # << >>) =>
        \A i \in DOMAIN Cuerpo(frec) :
            LET n == frec[i].Frecuencia * 100
                total == frec[Len(frec)].Frecuencia
            IN  /\ 2 * Abs(frec[i].Porcentaje * total - n) <= total
                /\ frec[i].Porcentaje \in 0..100
                /\ (2 * Abs(frec[i].Porcentaje * total - n) = total
                        => frec[i].Porcentaje % 2 = 0)

\* a table with an exact tie that went down to the even neighbour, and whose
\* percentages do not add up to 100
C7_Witness ==
    /\ pc = "tabla_1"
    /\ \E i \in DOMAIN Cuerpo(frec) :
          LET n == frec[i].Frecuencia * 100
              total == frec[Len(frec)].Frecuencia
          IN  /\ 2 * (n % total) = total
              /\ frec[i].Porcentaje = n \div total
    /\ SumPorcentaje(Cuerpo(frec)) # 100

\* no two distinct values of the column occur the same number of times
SinEmpates(s) ==
    \A v, w \in Range(s) : v # w => Count(s, v) # Count(s, w)

\* C9 as stated: the rows before the Total row are the distinct canonical
\* values in order of first occurrence, not sorted by count.  It is stated on
\* the columns without equal counts, where the order the sort gives to equal
\* counts plays no part.
C9_OrdenDeAparicion ==
    (pc \in {"tabla_1", "tabla_2"} /\ SinEmpates(canonizar_respuestas(series))) =>
        EtiquetasDe(Cuerpo(frec)) = Distinct(canonizar_respuestas(series))

\* C9 amended: the rows before the Total row are one row per distinct
\* canonical value, with its number of occurrences, in order of decreasing
\* count (not in order of first occurrence).
C9_OrdenPorFrecuencia ==
    pc \in {"tabla_1", "tabla_2"} =>
        LET c == Cuerpo(frec)
            s == canonizar_respuestas(series)
        IN  /\ \A i, j \in DOMAIN c : i < j => c[i].Frecuencia >= c[j].Frecuencia
            /\ \A i, j \in DOMAIN c : i # j => c[i].Respuesta # c[j].Respuesta
            /\ Labels(c) = Range(s)
            /\ \A i \in DOMAIN c : c[i].Frecuencia = Count(s, c[i].Respuesta)

\* a table whose rows are not in order of first occurrence
C9_Witness ==
    /\ pc = "tabla_1"
    /\ Len(frec) >= 3
    /\ EtiquetasDe(Cuerpo(frec)) # Distinct(canonizar_respuestas(series))
    /\ frec[1].Frecuencia > frec[2].Frecuencia

-----------------------------------------------------------------------------
(* Properties of ordenar_respuestas *)

\* the known scales in priority order, as the claim lists them
Escalas ==
    << <<s_Nunca, s_RaraVez, s_AVeces, s_Frecuentemente, s_Siempre, s_SinRespuesta, s_Total>>,
       <<s_MuyEnDesacuerdo, s_EnDesacuerdo, s_Neutral, s_DeAcuerdo, s_MuyDeAcuerdo,
         s_SinRespuesta, s_Total>>,
       <<s_No, s_No_se_ac, s_Si_ac, s_SinRespuesta, s_Total>>,
       <<s_Si_ac, s_No, s_No_se_ac, s_SinRespuesta, s_Total>> >>

PosEn(escala, label) == CHOOSE i \in DOMAIN escala : escala[i] = label

\* the first scale in priority order that contains every label, 0 if none does
PrimeraEscala(vals) ==
    IF \E k \in DOMAIN Escalas : vals \subseteq Range(Escalas[k])
    THEN Min({k \in DOMAIN Escalas : vals \subseteq Range(Escalas[k])})
    ELSE 0

\* C5: a table whose labels all belong to a known scale comes out in the order
\* of the first such scale, restricted to the labels present, Total last; the
\* labels Si, No, No se, Sin respuesta, Total come out as No, No se, Si, Sin
\* respuesta, Total.
C5_OrdenDeEscala ==
    (pc = "tabla_2" /\ PrimeraEscala(Labels(frec)) # 0) =>
        LET e == Escalas[PrimeraEscala(Labels(frec))]
        IN  /\ Len(frec_ord) = Len(frec)
            /\ Labels(frec_ord) = Labels(frec)
            /\ \A i, j \in DOMAIN frec_ord :
                  i < j => PosEn(e, frec_ord[i].Respuesta) <= PosEn(e, frec_ord[j].Respuesta)
            /\ frec_ord[Len(frec_ord)].Respuesta = s_Total
            /\ (Labels(frec) = {s_Si_ac, s_No, s_No_se_ac, s_SinRespuesta, s_Total}
                    /\ Len(frec) = 5
                => EtiquetasDe(frec_ord)
                     = <<s_No, s_No_se_ac, s_Si_ac, s_SinRespuesta, s_Total>>)

\* the table with labels Si, No, No se, Sin respuesta, Total has been reordered
C5_Witness ==
    /\ pc = "tabla_2"
    /\ Labels(frec) = {s_Si_ac, s_No, s_No_se_ac, s_SinRespuesta, s_Total}
    /\ Len(frec) = 5
    /\ frec[1].Respuesta = s_Si_ac
    /\ frec_ord # frec

\* number of times the row r occurs in the table t
Veces(t, r) == Cardinality({i \in DOMAIN t : t[i] = r})

\* C10: ordenar_respuestas only reorders: its result has the same rows the
\* same number of times as its argument, every row labelled Total comes after
\* every other row, and on the fallback path (no scale contains the labels)
\* the other rows are sorted by label.
C10_SoloReordena ==
    pc = "tabla_2" =>
        /\ Len(frec_ord) = Len(frec)
        /\ \A r \in Range(frec) \cup Range(frec_ord) : Veces(frec_ord, r) = Veces(frec, r)
        /\ \A i, j \in DOMAIN frec_ord :
              (frec_ord[i].Respuesta = s_Total /\ frec_ord[j].Respuesta # s_Total) => j < i
        /\ (PrimeraEscala(Labels(frec)) = 0 =>
              \A i, j \in DOMAIN frec_ord :
                  (i < j /\ frec_ord[i].Respuesta # s_Total /\ frec_ord[j].Respuesta # s_Total)
                      => StrLess(frec_ord[i].Respuesta, frec_ord[j].Respuesta))

\* the fallback path has reordered a table with several non-Total rows
C10_Witness ==
    /\ pc = "tabla_2"
    /\ PrimeraEscala(Labels(frec)) = 0
    /\ Len(frec) >= 3
    /\ frec_ord # frec

-----------------------------------------------------------------------------
(* The script: one run per user interaction *)

COL_REGION ==
    <<"R", "e", "g", "i", "ó", "n", " ", "e", "n", " ", "l", "a", " ", "q", "u", "e",
      " ", "t", "r", "a", "b", "a", "j", "a">>
COL_INSTANCIA ==
    <<"I", "n", "s", "t", "a", "n", "c", "i", "a", " ", "d", "e", "l", " ", "M", "I",
      "N", "E", "D", "U", " ", "d", "o", "n", "d", "e", " ", "t", "r", "a", "b", "a",
      "j", "a">>
COL_NORMALIZADA ==
    <<"I", "n", "s", "t", "a", "n", "c", "i", "a", " ", "(", "N", "o", "r", "m", "a",
      "l", "i", "z", "a", "d", "a", ")">>
COL_ID ==
    <<"I", "D">>
COL_HORA_INICIO ==
    <<"H", "o", "r", "a", " ", "d", "e", " ", "i", "n", "i", "c", "i", "o">>
COL_HORA_FIN ==
    <<"H", "o", "r", "a", " ", "d", "e", " ", "f", "i", "n", "a", "l", "i", "z", "a",
      "c", "i", "ó", "n">>
COL_CARGO ==
    <<"S", "e", "l", "e", "c", "c", "i", "o", "n", "e", " ", "s", "u", " ", "c", "a",
      "r", "g", "o", ":", " ">>
COL_EXPERIENCIA ==
    <<"S", "e", "l", "e", "c", "c", "i", "o", "n", "e", " ", "s", "u", "s", " ", "a",
      "ñ", "o", "s", " ", "d", "e", " ", "e", "x", "p", "e", "r", "i", "e", "n", "c",
      "i", "a", ":", " ">>
COL_OTRO_CARGO ==
    <<"E", "s", "p", "e", "c", "i", "f", "i", "c", "a", "r", " ", "o", "t", "r", "o",
      " ", "c", "a", "r", "g", "o">>
COL_OTROS ==
    <<"E", "s", "p", "e", "c", "i", "f", "i", "c", "a", "r", " ", "s", "i", " ", "s",
      "e", "l", "e", "c", "c", "i", "o", "n", "ó", " ", "o", "t", "r", "o", "s">>
COL_P1 ==
    <<"P", "1">>

excluir == {COL_ID, COL_HORA_INICIO, COL_HORA_FIN, COL_REGION, COL_INSTANCIA,
            COL_NORMALIZADA, COL_CARGO, COL_EXPERIENCIA, COL_OTRO_CARGO, COL_OTROS}

\* a widget that has not been rendered yet returns its default
Default == <<NA>>

ColIdx(frame, name) == CHOOSE i \in DOMAIN frame.cols : frame.cols[i] = name

\* df[name]
Columna(frame, name) ==
    [r \in DOMAIN frame.rows |-> frame.rows[r][ColIdx(frame, name)]]

\* Series.dropna().unique() / nunique(): the distinct non-missing values
Unicos(col) == Range(col) \ {NA}

\* sorted(S) for a set of texts
SortedSeq(S) ==
    CHOOSE q \in [1..Cardinality(S) -> S] :
        /\ Range(q) = S
        /\ \A i, j \in DOMAIN q : i < j => StrLess(q[i], q[j])

\* leer_excel_relativo on a readable file: headers stripped; every column of
\* dtype object (one that holds some text) goes through astype(str), which
\* writes a missing cell as "nan", and str.strip; a column with no text
\* (all cells missing) has a numeric dtype and is left as it is.  This is
\* read_excel giving text columns the object dtype, the behaviour line 55 of
\* normalizar_instancia ("NAN", "NONE") is written against.
leer_excel_relativo(s) ==
    LET EsObject(i) == \E r \in DOMAIN s.rows : s.rows[r][i] # NA
        Limpia(i, c) == IF EsObject(i) THEN Strip(IF c = NA THEN s_nan ELSE c) ELSE c
    IN  [cols  |-> [i \in DOMAIN s.cols |-> Strip(s.cols[i])],
         rows  |-> [r \in DOMAIN s.rows |->
                      [i \in DOMAIN s.cols |-> Limpia(i, s.rows[r][i])]],
         index |-> [r \in DOMAIN s.rows |-> r]]

\* df["Instancia (Normalizada)"] = normalizar_instancia(df[COL_INSTANCIA])
ConNormalizada(frame) ==
    [cols  |-> Append(frame.cols, COL_NORMALIZADA),
     rows  |-> [r \in DOMAIN frame.rows |->
                  Append(frame.rows[r],
                         normalizar_instancia(Columna(frame, COL_INSTANCIA)[r]))],
     index |-> frame.index]

\* the options of the two select boxes
Regiones(frame) == {s_Todas} \cup Unicos(Columna(frame, COL_REGION))
Instancias(frame) == {s_Todas} \cup Unicos(Columna(frame, COL_NORMALIZADA))

\* a plausible slip: the two conditions joined with "or"
mask_con_o(frame, region, inst) ==
    [r \in DOMAIN frame.rows |->
        \/ region # s_Todas /\ Columna(frame, COL_REGION)[r] = region
        \/ inst # s_Todas /\ Columna(frame, COL_NORMALIZADA)[r] = inst]

\* mask: True, and-ed with each condition whose selection is not "Todas"
mask(frame, region, inst) ==
    [r \in DOMAIN frame.rows |->
        /\ region # s_Todas => Columna(frame, COL_REGION)[r] = region
        /\ inst # s_Todas => Columna(frame, COL_NORMALIZADA)[r] = inst]

\* the positions of a boolean mask that are True, in increasing order
RECURSIVE Seleccion(_, _)
Seleccion(mk, n) ==
    IF n = 0 THEN << >>
    ELSE IF mk[n] THEN Append(Seleccion(mk, n - 1), n) ELSE Seleccion(mk, n - 1)

\* df[mask]
Filtrado(frame, mk) ==
    LET sel == Seleccion(mk, Len(frame.rows))
    IN  [cols  |-> frame.cols,
         rows  |-> [k \in DOMAIN sel |-> frame.rows[sel[k]]],
         index |-> [k \in DOMAIN sel |-> frame.index[sel[k]]]]

\* groupby(COL_REGION).size() with "% del total" and the appended Total row
ResumenPorRegion(frame) ==
    LET col == Columna(frame, COL_REGION)
        claves == SortedSeq(Unicos(col))
        suma == Cardinality({r \in DOMAIN col : col[r] # NA})
        res_reg == [i \in DOMAIN claves |->
                      [Region     |-> claves[i],
                       Respuestas |-> Count(col, claves[i]),
                       Porcentaje |-> redondeo(Count(col, claves[i]) * 100, suma)]]
    IN  res_reg \o <<[Region |-> s_Total, Respuestas |-> suma, Porcentaje |-> 100]>>

\* [c for c in df_f.columns if c not in excluir]
Preguntas(frame) == SelectSeq(frame.cols, LAMBDA c : c \notin excluir)

\* lines 120-124: load, or report the failure and stop
Cargar ==
    /\ pc = "load"
    /\ IF src.status = "ok"
       THEN /\ df' = leer_excel_relativo(src)
            /\ stages' = Append(stages, "load")
            /\ pc' = "validate"
            /\ UNCHANGED shown
       ELSE /\ shown' = Append(shown, "error_load")
            /\ pc' = "stopped"
            /\ UNCHANGED <<df, stages>>
    /\ UNCHANGED <<src, df_f, region_sel, inst_sel, sel_pregs, q_idx, kpi, res_region,
                   series, normVars, canonVars, tablaVars>>

\* lines 127-132: the two required columns, the region column checked first
Validar ==
    /\ pc = "validate"
    /\ stages' = Append(stages, "validate")
    /\ IF COL_REGION \notin Range(df.cols)
       THEN shown' = Append(shown, "error_col_region") /\ pc' = "stopped"
       ELSE IF COL_INSTANCIA \notin Range(df.cols)
       THEN shown' = Append(shown, "error_col_instancia") /\ pc' = "stopped"
       ELSE shown' = shown /\ pc' = "normalize"
    /\ UNCHANGED <<src, df, df_f, region_sel, inst_sel, sel_pregs, q_idx, kpi, res_region,
                   series, normVars, canonVars, tablaVars>>

\* line 135
NormalizarColumna ==
    /\ pc = "normalize"
    /\ df' = ConNormalizada(df)
    /\ stages' = Append(stages, "normalize")
    /\ pc' = "filter"
    /\ UNCHANGED <<src, df_f, region_sel, inst_sel, sel_pregs, q_idx, kpi, res_region,
                   shown, series, normVars, canonVars, tablaVars>>

\* a plausible slip: the empty result is reported but the run goes on
Filtrar_sin_stop ==
    /\ pc = "filter"
    /\ df_f' = Filtrado(df, mask(df, region_sel, inst_sel))
    /\ stages' = Append(stages, "filter")
    /\ shown' = IF df_f'.rows = << >> THEN Append(shown, "warning_empty") ELSE shown
    /\ pc' = "kpi"
    /\ UNCHANGED <<src, df, region_sel, inst_sel, sel_pregs, q_idx, kpi, res_region,
                   series, normVars, canonVars, tablaVars>>

\* lines 138-152: the select boxes return the current selections, the mask is
\* applied, and an empty result is reported and stops the run
Filtrar ==
    /\ pc = "filter"
    /\ df_f' = Filtrado(df, mask(df, region_sel, inst_sel))
    /\ stages' = Append(stages, "filter")
    /\ IF df_f'.rows = << >>
       THEN shown' = Append(shown, "warning_empty") /\ pc' = "stopped"
       ELSE shown' = shown /\ pc' = "kpi"
    /\ UNCHANGED <<src, df, region_sel, inst_sel, sel_pregs, q_idx, kpi, res_region,
                   series, normVars, canonVars, tablaVars>>

\* lines 155-158
KPIs ==
    /\ pc = "kpi"
    /\ kpi' = <<Len(df_f.rows),
                Cardinality(Unicos(Columna(df_f, COL_REGION))),
                Cardinality(Unicos(Columna(df_f, COL_NORMALIZADA)))>>
    /\ stages' = Append(stages, "kpi")
    /\ pc' = "resumen"
    /\ UNCHANGED <<src, df, df_f, region_sel, inst_sel, sel_pregs, q_idx, res_region,
                   shown, series, normVars, canonVars, tablaVars>>

\* lines 163-186: the summary by region, shown, offered for download and charted
Resumen ==
    /\ pc = "resumen"
    /\ res_region' = ResumenPorRegion(df_f)
    /\ stages' = Append(stages, "resumen")
    /\ pc' = "preguntas"
    /\ UNCHANGED <<src, df, df_f, region_sel, inst_sel, sel_pregs, q_idx, kpi,
                   shown, series, normVars, canonVars, tablaVars>>

\* lines 198-204: the multiselect returns the selection (every question by
\* default); with none selected only the notice is shown
ElegirPreguntas ==
    /\ pc = "preguntas"
    /\ sel_pregs' = IF sel_pregs = Default THEN Preguntas(df_f) ELSE sel_pregs
    /\ stages' = Append(stages, "preguntas")
    /\ q_idx' = 1
    /\ IF sel_pregs' = << >>
       THEN shown' = Append(shown, "info_sin_preguntas") /\ pc' = "done"
       ELSE shown' = shown /\ pc' = "tabs"
    /\ UNCHANGED <<src, df, df_f, region_sel, inst_sel, kpi, res_region,
                   series, normVars, canonVars, tablaVars>>

\* lines 205-221: one tab: the table, its ordering, the download and the chart
Tab ==
    /\ pc = "tabs"
    /\ series' = Columna(df_f, sel_pregs[q_idx])
    /\ frec' \in tabla_frecuencias(series')
    /\ frec_ord' \in ordenar_respuestas(frec')
    /\ stages' = stages \o <<"tabla", "ordenar", "export", "chart">>
    /\ q_idx' = q_idx + 1
    /\ pc' = IF q_idx = Len(sel_pregs) THEN "done" ELSE "tabs"
    /\ UNCHANGED <<src, df, df_f, region_sel, inst_sel, sel_pregs, kpi, res_region,
                   shown, normVars, canonVars>>

\* all sub-sequences of a sequence (the multiselect keeps the order of its options)
RECURSIVE SubSeqs(_)
SubSeqs(s) ==
    IF s = << >> THEN {<< >>}
    ELSE LET rest == SubSeqs(Tail(s))
         IN  rest \cup {<<Head(s)>> \o x : x \in rest}

\* The user changes a widget (or not) and the script runs again from the top.
\* A widget offers only the options it was rendered with in the previous run.
Interactuar ==
    /\ pc \in {"done", "stopped"}
    /\ IF "filter" \in Range(stages)
       THEN region_sel' \in Regiones(df) /\ inst_sel' \in Instancias(df)
       ELSE UNCHANGED <<region_sel, inst_sel>>
    /\ IF "preguntas" \in Range(stages)
       THEN sel_pregs' \in SubSeqs(Preguntas(df_f))
       ELSE UNCHANGED sel_pregs
    /\ pc' = "load"
    /\ df' = EmptyFrame /\ df_f' = EmptyFrame
    /\ q_idx' = 1 /\ kpi' = << >> /\ res_region' = << >>
    /\ stages' = << >> /\ shown' = << >>
    /\ series' = << >> /\ frec' = << >> /\ frec_ord' = << >>
    /\ UNCHANGED <<src, normVars, canonVars>>

\* the spreadsheets considered
RegionCeldas == {s_Lima, s_Sp \o s_Cusco}
InstanciaCeldas == {s_ugel, NA}
P1Celdas == {s_Si, s_No \o s_Sp, NA}

Encabezados ==
    { <<COL_REGION \o s_Sp, COL_INSTANCIA, COL_P1>>,
      <<COL_INSTANCIA, COL_P1>>,
      <<COL_REGION, COL_P1>>,
      <<COL_REGION, COL_INSTANCIA>> }

CeldasDe(h) ==
    IF Strip(h) = COL_REGION THEN RegionCeldas
    ELSE IF Strip(h) = COL_INSTANCIA THEN InstanciaCeldas
    ELSE P1Celdas

\* the rows a sheet with the headers hs can hold
Filas(hs) == {f \in [DOMAIN hs -> RegionCeldas \cup InstanciaCeldas \cup P1Celdas] :
                \A i \in DOMAIN hs : f[i] \in CeldasDe(hs[i])}

Fuentes ==
    {[status |-> st, cols |-> << >>, rows |-> << >>] : st \in {"missing", "corrupt"}}
    \cup UNION {{[status |-> "ok", cols |-> hs, rows |-> rs] :
                   rs \in Columns(Filas(hs), MaxSrcRows)} : hs \in Encabezados}

Init ==
    /\ pc = "load"
    /\ src \in Fuentes
    /\ df = EmptyFrame
    /\ df_f = EmptyFrame
    /\ region_sel = s_Todas
    /\ inst_sel = s_Todas
    /\ sel_pregs = Default
    /\ q_idx = 1
    /\ kpi = << >>
    /\ res_region = << >>
    /\ stages = << >>
    /\ shown = << >>
    /\ series = << >>
    /\ NoNorm /\ NoCanon /\ NoTabla

Next ==
    \/ Cargar
    \/ Validar
    \/ NormalizarColumna
    \/ Filtrar
    \/ KPIs
    \/ Resumen
    \/ ElegirPreguntas
    \/ Tab
    \/ Interactuar

Spec == Init /\ [][Next]_vars

-----------------------------------------------------------------------------
(* The filter step on its own, for any selection, also one that no row has *)

MaxFilterRows == 2     \* rows of the frame handed to the filter step

FiltroRegiones == {s_Lima, s_Cusco, s_Todas}
FiltroInstancias == {s_ugel, s_MINEDU, NA}

\* normalised frames: every row carries the label of its raw tier cell
FiltroFrames ==
    {[cols  |-> <<COL_REGION, COL_INSTANCIA, COL_NORMALIZADA>>,
      rows  |-> [r \in DOMAIN rs |->
                    <<rs[r][1], rs[r][2], normalizar_instancia(rs[r][2])>>],
      index |-> [r \in DOMAIN rs |-> r]] :
        rs \in Columns(FiltroRegiones \X FiltroInstancias, MaxFilterRows)}

InitFilter ==
    /\ pc = "filter"
    /\ df \in FiltroFrames
    /\ region_sel \in {s_Todas, s_Lima, s_Cusco, s_Puno}
    /\ inst_sel \in {s_Todas, s_UGEL, s_MINEDU, s_SinEspecificar, s_ODENAGED}
    /\ src = [status |-> "ok", cols |-> << >>, rows |-> << >>]
    /\ df_f = EmptyFrame
    /\ sel_pregs = Default
    /\ q_idx = 1
    /\ kpi = << >>
    /\ res_region = << >>
    /\ stages = <<"load", "validate", "normalize">>
    /\ shown = << >>
    /\ series = << >>
    /\ NoNorm /\ NoCanon /\ NoTabla

NextFilter == Filtrar

SpecFilter == InitFilter /\ [][NextFilter]_vars

\* the row satisfies every constraint that is set
Cumple(row, region, inst) ==
    /\ region = s_Todas \/ row[1] = region
    /\ inst = s_Todas \/ row[3] = inst

\* C4: the filter step returns exactly the rows that satisfy every constraint
\* that is set; with a region that the data has and no tier constraint the
\* result is non-empty and holds only rows of that region; with a region that
\* the data does not have the result is the empty-result signal.
C4_Filtro ==
    pc \in {"kpi", "stopped"} =>
        LET regiones == Range(Columna(df, COL_REGION))
        IN  /\ Range(df_f.index) = {r \in DOMAIN df.rows :
                                        Cumple(df.rows[r], region_sel, inst_sel)}
            /\ \A k \in DOMAIN df_f.rows : df_f.rows[k] = df.rows[df_f.index[k]]
            /\ \A j, k \in DOMAIN df_f.index : j < k => df_f.index[j] < df_f.index[k]
            /\ pc = "stopped" <=> df_f.rows = << >>
            /\ pc = "stopped" <=> "warning_empty" \in Range(shown)
            /\ (region_sel # s_Todas /\ region_sel \in regiones /\ inst_sel = s_Todas)
                   => /\ df_f.rows # << >>
                      /\ \A k \in DOMAIN df_f.rows : df_f.rows[k][1] = region_sel
            /\ (region_sel # s_Todas /\ region_sel \notin regiones)
                   => df_f.rows = << >>

\* a region that the data has was selected with no tier constraint, and the
\* filter kept some rows and dropped others
C4_Witness ==
    /\ pc = "kpi"
    /\ region_sel = s_Lima
    /\ inst_sel = s_Todas
    /\ df_f.rows # << >>
    /\ Len(df_f.rows) < Len(df.rows)

-----------------------------------------------------------------------------
(* Properties of a run of the script *)

Hecho(e) == e \in Range(stages)
Mostrado(msg) == msg \in Range(shown)

\* C3: a run stops at the first failure: after a failed load nothing else is
\* computed; after a missing required column no normalisation, filter or
\* table; after an empty filter result no KPI, summary or table; with no
\* question selected no table, export or chart.  So tabla_frecuencias runs
\* only when the load succeeded, both columns are there, the filtered rows are
\* not empty and some question is selected.
C3_ParaEnElPrimerFallo ==
    /\ Mostrado("error_load") =>
          stages = << >> /\ pc = "stopped"
    /\ (Mostrado("error_col_region") \/ Mostrado("error_col_instancia")) =>
          /\ Range(stages) \subseteq {"load", "validate"}
          /\ pc = "stopped"
    /\ Mostrado("warning_empty") =>
          /\ Range(stages) \subseteq {"load", "validate", "normalize", "filter"}
          /\ pc = "stopped"
    /\ Mostrado("info_sin_preguntas") =>
          /\ Range(stages) \cap {"tabla", "ordenar", "export", "chart"} = {}
          /\ pc = "done"
    /\ Hecho("tabla") =>
          /\ src.status = "ok"
          /\ {COL_REGION, COL_INSTANCIA} \subseteq Range(df.cols)
          /\ df_f.rows # << >>
          /\ sel_pregs # << >> /\ sel_pregs # Default
          /\ shown = << >>

\* a run that the empty filter result stopped, on data that does have rows
C3_Witness ==
    /\ pc = "stopped"
    /\ Mostrado("warning_empty")
    /\ df.rows # << >>
    /\ Hecho("filter")

\* the source column of the question of the tab rendered last
FuenteDe(q) == CHOOSE i \in DOMAIN src.cols : Strip(src.cols[i]) = q

\* the count shown under a label, 0 when the table has no such row
FrecuenciaDe(t, label) ==
    IF \E i \in DOMAIN Cuerpo(t) : t[i].Respuesta = label
    THEN t[CHOOSE i \in DOMAIN Cuerpo(t) : t[i].Respuesta = label].Frecuencia
    ELSE 0

\* C8: from the sheet to the table, the cells of a textual question column
\* that are missing in the sheet are the ones counted under "Sin respuesta".
C8_FaltanteEsSinRespuesta ==
    (Hecho("tabla") /\ q_idx > 1) =>
        LET i == FuenteDe(sel_pregs[q_idx - 1])
            textual == \E r \in DOMAIN src.rows : src.rows[r][i] # NA
            faltantes == {k \in DOMAIN df_f.index : src.rows[df_f.index[k]][i] = NA}
        IN  textual => FrecuenciaDe(frec, s_SinRespuesta) = Cardinality(faltantes)

====
